---- MODULE Spec2Model ----
(***************************************************************************)
(* Model of taggui's ImageListModel (taggui/models/image_list_model.py):   *)
(* the in-memory list of images with their tags, the directory loader, the *)
(* sidecar writer and the tag mutation operations.                         *)
(*                                                                         *)
(* Text (captions, tags, file names) is modelled as sequences of           *)
(* one-character strings, so that join, split, strip, suffix handling and  *)
(* string comparison are computed and not assumed.  An image is a record   *)
(* [path, tags]; its dimensions and thumbnail play no part in loading tags *)
(* or in any mutation and are left out.  The directory is flat: a path is  *)
(* a file name.                                                            *)
(***************************************************************************)
EXTENDS Integers, Sequences, FiniteSets, TLC

VARIABLES
    separator,   \* self.separator, set by __init__
    images,      \* self.images: sequence of [path, tags]
    disk,        \* the directory: file name -> text content
    unwritable,  \* sidecar files whose write_text raises OSError
    call,        \* the last operation called, with its arguments
    before,      \* self.images when that operation was called
    writes,      \* write_text calls of that operation, in order
    errors,      \* file names shown in error message boxes, in order
    signals,     \* signals emitted by that operation, in order
    raised,      \* TRUE when that operation ended with an uncaught IndexError
    returned,    \* return value of remove_duplicate_tags
    edits,       \* number of mutation operations called so far
    clean        \* TRUE once the directory is loaded, while every write since
                 \* succeeded and every tag given by a caller was clean

vars == <<separator, images, disk, unwritable, call, before, writes, errors,
          signals, raised, returned, edits, clean>>

----------------------------------------------------------------------------
(* Bounds of the model.                                                    *)

\* Mutation operations explored after construction (loads are not counted).
MaxEdits == 1

----------------------------------------------------------------------------
(* Text.                                                                   *)

\* Code point of a character (Python compares strings by code point).
Ord(c) ==
    CASE c = " " -> 32
      [] c = "," -> 44
      [] c = "." -> 46
      [] c = "a" -> 97
      [] c = "b" -> 98
      [] c = "c" -> 99
      [] c = "g" -> 103
      [] c = "j" -> 106
      [] c = "n" -> 110
      [] c = "p" -> 112
      [] c = "t" -> 116
      [] c = "x" -> 120

\* str.isspace for a character.
IsSpace(c) == c = " "

\* s < t for Python strings.
RECURSIVE StrLess(_, _)
StrLess(s, t) ==
    IF t = <<>> THEN FALSE
    ELSE IF s = <<>> THEN TRUE
    ELSE IF Head(s) = Head(t) THEN StrLess(Tail(s), Tail(t))
    ELSE Ord(Head(s)) < Ord(Head(t))

\* sep.join(tags)
RECURSIVE Join(_, _)
Join(tags, sep) ==
    IF tags = <<>> THEN <<>>
    ELSE IF Len(tags) = 1 THEN tags[1]
    ELSE tags[1] \o sep \o Join(Tail(tags), sep)

\* TRUE when s starts with sep.
StartsWith(s, sep) ==
    /\ Len(sep) <= Len(s)
    /\ SubSeq(s, 1, Len(sep)) = sep

\* caption.split(sep) for a non-empty sep: cut at each leftmost occurrence.
RECURSIVE SplitFrom(_, _, _)
SplitFrom(piece, rest, sep) ==
    IF rest = <<>> THEN <<piece>>
    ELSE IF StartsWith(rest, sep)
         THEN <<piece>> \o SplitFrom(<<>>, SubSeq(rest, Len(sep) + 1, Len(rest)), sep)
         ELSE SplitFrom(Append(piece, Head(rest)), Tail(rest), sep)

Split(caption, sep) == SplitFrom(<<>>, caption, sep)

\* tag.lstrip()
RECURSIVE LStrip(_)
LStrip(s) ==
    IF s # <<>> /\ IsSpace(Head(s)) THEN LStrip(Tail(s)) ELSE s

\* tag.rstrip()
RECURSIVE RStrip(_)
RStrip(s) ==
    IF s # <<>> /\ IsSpace(s[Len(s)]) THEN RStrip(SubSeq(s, 1, Len(s) - 1)) ELSE s

\* tag.strip()
Strip(s) == RStrip(LStrip(s))

\* Mutant of ParseCaption: keeps the pieces that are empty after stripping.
ParseCaptionKeepEmpty(caption, sep) ==
    IF caption = <<>> THEN <<>>
    ELSE LET pieces == Split(caption, sep)
         IN  [i \in 1..Len(pieces) |-> Strip(pieces[i])]

\* load_directory, lines 82-85: the tags read from a sidecar's content.
ParseCaption(caption, sep) ==
    IF caption = <<>> THEN <<>>
    ELSE LET pieces == Split(caption, sep)
             stripped == [i \in 1..Len(pieces) |-> Strip(pieces[i])]
         IN  SelectSeq(stripped, LAMBDA tag : tag # <<>>)

----------------------------------------------------------------------------
(* Paths.                                                                  *)

\* Position of the last "." of a file name, 0 when there is none.
RECURSIVE LastDot(_)
LastDot(name) ==
    IF name = <<>> THEN 0
    ELSE IF name[Len(name)] = "." THEN Len(name)
    ELSE LastDot(SubSeq(name, 1, Len(name) - 1))

\* Path.suffix: from the last dot, unless the dot leads or ends the name.
Suffix(name) ==
    LET i == LastDot(name)
    IN  IF 1 < i /\ i < Len(name) THEN SubSeq(name, i, Len(name)) ELSE <<>>

TxtSuffix == <<".", "t", "x", "t">>

\* Path.with_suffix(sfx)
WithSuffix(name, sfx) ==
    SubSeq(name, 1, Len(name) - Len(Suffix(name))) \o sfx

\* image.path.with_suffix('.txt')
SidecarOf(path) == WithSuffix(path, TxtSuffix)

----------------------------------------------------------------------------
(* Loading.                                                                *)

\* get_file_paths: every file of the directory.
get_file_paths(d) == DOMAIN d

\* Mutant of IsTextFile: takes every file for an image.
IsTextFileNever(path) == FALSE

\* load_directory, line 71: path.suffix == '.txt'
IsTextFile(path) == Suffix(path) = TxtSuffix

\* load_directory, lines 78-85: the tags of one image.
TagsOnDisk(image_path, d, sep) ==
    LET text_file_paths == {path \in get_file_paths(d) : IsTextFile(path)}
        text_file_path == SidecarOf(image_path)
    IN  IF text_file_path \in text_file_paths
        THEN ParseCaption(d[text_file_path], sep)
        ELSE <<>>

\* self.images.sort(key=lambda image_: image_.path), on the set of paths.
RECURSIVE SortPaths(_)
SortPaths(paths) ==
    IF paths = {} THEN <<>>
    ELSE LET least == CHOOSE p \in paths : \A q \in paths \ {p} : StrLess(p, q)
         IN  <<least>> \o SortPaths(paths \ {least})

\* load_directory: the images the directory gives.
LoadImages(d, sep) ==
    LET file_paths == get_file_paths(d)
        text_file_paths == {path \in file_paths : IsTextFile(path)}
        image_paths == file_paths \ text_file_paths
        sorted == SortPaths(image_paths)
    IN  [i \in 1..Len(sorted) |->
            [path |-> sorted[i], tags |-> TagsOnDisk(sorted[i], d, sep)]]

----------------------------------------------------------------------------
(* Writing.                                                                *)

\* write_image_tags_to_disk: write_text of the joined tags to the sidecar; an
\* OSError (here: the file is unwritable, and is left as it was) is caught
\* and shown in a message box naming the image.
write_image_tags_to_disk(image, d, unw, sep) ==
    LET file == SidecarOf(image.path)
        caption == Join(image.tags, sep)
        ok == file \notin unw
    IN  [disk |-> IF ok
                  THEN [f \in DOMAIN d \cup {file} |-> IF f = file THEN caption ELSE d[f]]
                  ELSE d,
         write |-> [path |-> image.path, file |-> file, caption |-> caption, ok |-> ok],
         errors |-> IF ok THEN <<>> ELSE <<image.path>>]

----------------------------------------------------------------------------
(* Tag lists.                                                              *)

\* tag in image.tags
Contains(tags, tag) == \E i \in 1..Len(tags) : tags[i] = tag

\* len(set(image.tags))
UniqueTagCount(tags) == Cardinality({tags[i] : i \in 1..Len(tags)})

\* Mutant of Dedup: keeps the last occurrence of each tag, not the first.
RECURSIVE DedupKeepLast(_)
DedupKeepLast(tags) ==
    IF tags = <<>> THEN <<>>
    ELSE IF Contains(Tail(tags), Head(tags)) THEN DedupKeepLast(Tail(tags))
    ELSE <<Head(tags)>> \o DedupKeepLast(Tail(tags))

\* list(dict.fromkeys(image.tags)): the keys in order of first insertion.
RECURSIVE DedupFrom(_, _)
DedupFrom(kept, rest) ==
    IF rest = <<>> THEN kept
    ELSE IF Contains(kept, Head(rest)) THEN DedupFrom(kept, Tail(rest))
    ELSE DedupFrom(Append(kept, Head(rest)), Tail(rest))

Dedup(tags) == DedupFrom(<<>>, tags)

\* Stable insertion of x into an ascending list: before the first greater tag.
RECURSIVE InsertAlpha(_, _)
InsertAlpha(x, sorted) ==
    IF sorted = <<>> THEN <<x>>
    ELSE IF StrLess(x, Head(sorted)) THEN <<x>> \o sorted
    ELSE <<Head(sorted)>> \o InsertAlpha(x, Tail(sorted))

\* sorted(tags) and tags.sort(): a stable sort in ascending order.
RECURSIVE SortAlpha(_)
SortAlpha(tags) ==
    IF tags = <<>> THEN <<>>
    ELSE InsertAlpha(tags[Len(tags)], SortAlpha(SubSeq(tags, 1, Len(tags) - 1)))

\* tag_counter[tag]: a Counter gives 0 for a tag it does not hold.
Count(tag_counter, tag) ==
    IF tag \in DOMAIN tag_counter THEN tag_counter[tag] ELSE 0

\* Mutant of InsertFreq: puts x before the tags of equal count (not stable).
RECURSIVE InsertFreqUnstable(_, _, _)
InsertFreqUnstable(x, sorted, tag_counter) ==
    IF sorted = <<>> THEN <<x>>
    ELSE IF Count(tag_counter, Head(sorted)) <= Count(tag_counter, x)
         THEN <<x>> \o sorted
         ELSE <<Head(sorted)>> \o InsertFreqUnstable(x, Tail(sorted), tag_counter)

\* Stable insertion of x into a list of descending count (reverse=True keeps
\* the original order of equal keys): before the first tag of smaller count.
RECURSIVE InsertFreq(_, _, _)
InsertFreq(x, sorted, tag_counter) ==
    IF sorted = <<>> THEN <<x>>
    ELSE IF Count(tag_counter, Head(sorted)) < Count(tag_counter, x)
         THEN <<x>> \o sorted
         ELSE <<Head(sorted)>> \o InsertFreq(x, Tail(sorted), tag_counter)

\* sorted(tags, key=lambda tag: tag_counter[tag], reverse=True)
RECURSIVE SortFreq(_, _)
SortFreq(tags, tag_counter) ==
    IF tags = <<>> THEN <<>>
    ELSE InsertFreq(tags[Len(tags)],
                    SortFreq(SubSeq(tags, 1, Len(tags) - 1), tag_counter),
                    tag_counter)

\* Every order random.shuffle can leave a list in.
Shuffles(tags) ==
    {[i \in 1..Len(tags) |-> tags[p[i]]] : p \in Permutations(1..Len(tags))}

\* Mutant of RenameIn: renames the first occurrence only.
RenameFirstIn(tags, old_tag, new_tag) ==
    [i \in 1..Len(tags) |->
        IF tags[i] = old_tag /\ \A j \in 1..(i - 1) : tags[j] # old_tag
        THEN new_tag ELSE tags[i]]

\* rename_tag, lines 201-202
RenameIn(tags, old_tag, new_tag) ==
    [i \in 1..Len(tags) |-> IF tags[i] = old_tag THEN new_tag ELSE tags[i]]

\* delete_tag, lines 214-215
DeleteIn(tags, tag) == SelectSeq(tags, LAMBDA image_tag : image_tag # tag)

----------------------------------------------------------------------------
(* What each mutation operation does to each image: plan[i].tags is the    *)
(* tag list image i is left with, plan[i].changed tells whether i is       *)
(* appended to changed_image_indices and written to disk, plan[i].removed  *)
(* is what it adds to removed_tag_count.                                   *)

Untouched(tags) == [tags |-> tags, changed |-> FALSE, removed |-> 0]

\* remove_duplicate_tags, lines 118-127
remove_duplicate_plan(imgs) ==
    [i \in 1..Len(imgs) |->
        LET tags == imgs[i].tags
            tag_count == Len(tags)
            unique_tag_count == UniqueTagCount(tags)
        IN  IF tag_count = unique_tag_count THEN Untouched(tags)
            ELSE [tags |-> Dedup(tags), changed |-> TRUE,
                  removed |-> tag_count - unique_tag_count]]

\* Mutant of AlphabeticalOrder: never keeps the first tag in place.
AlphabeticalOrderUnpinned(tags, do_not_reorder_first_tag) == SortAlpha(tags)

\* sort_tags_alphabetically, lines 140-144
AlphabeticalOrder(tags, do_not_reorder_first_tag) ==
    IF do_not_reorder_first_tag
    THEN <<tags[1]>> \o SortAlpha(Tail(tags))
    ELSE SortAlpha(tags)

\* Mutant of sort_alphabetically_plan: writes every record of 2 or more
\* tags without comparing the captions.
sort_alphabetically_plan_no_compare(imgs, do_not_reorder_first_tag, sep) ==
    [i \in 1..Len(imgs) |->
        LET tags == imgs[i].tags
            sorted == AlphabeticalOrder(tags, do_not_reorder_first_tag)
        IN  IF Len(tags) < 2 THEN Untouched(tags)
            ELSE [tags |-> sorted, changed |-> TRUE, removed |-> 0]]

\* sort_tags_alphabetically, lines 136-148
sort_alphabetically_plan(imgs, do_not_reorder_first_tag, sep) ==
    [i \in 1..Len(imgs) |->
        LET tags == imgs[i].tags
            sorted == AlphabeticalOrder(tags, do_not_reorder_first_tag)
        IN  IF Len(tags) < 2 THEN Untouched(tags)
            ELSE [tags |-> sorted,
                  changed |-> Join(sorted, sep) # Join(tags, sep),
                  removed |-> 0]]

\* sort_tags_by_frequency, lines 163-169
FrequencyOrder(tags, tag_counter, do_not_reorder_first_tag) ==
    IF do_not_reorder_first_tag
    THEN <<tags[1]>> \o SortFreq(Tail(tags), tag_counter)
    ELSE SortFreq(tags, tag_counter)

\* sort_tags_by_frequency, lines 159-173
sort_by_frequency_plan(imgs, tag_counter, do_not_reorder_first_tag, sep) ==
    [i \in 1..Len(imgs) |->
        LET tags == imgs[i].tags
            sorted == FrequencyOrder(tags, tag_counter, do_not_reorder_first_tag)
        IN  IF Len(tags) < 2 THEN Untouched(tags)
            ELSE [tags |-> sorted,
                  changed |-> Join(sorted, sep) # Join(tags, sep),
                  removed |-> 0]]

\* shuffle_tags, lines 184-189: every tag list the shuffle can leave.
ShuffleOrders(tags, do_not_reorder_first_tag) ==
    IF do_not_reorder_first_tag
    THEN {<<tags[1]>> \o remaining_tags : remaining_tags \in Shuffles(Tail(tags))}
    ELSE Shuffles(tags)

\* The outcomes of random.shuffle over the whole collection: one tag list
\* for each image (its own list when it has fewer than 2 tags).
RECURSIVE ShuffleChoices(_, _)
ShuffleChoices(imgs, do_not_reorder_first_tag) ==
    IF imgs = <<>> THEN {<<>>}
    ELSE LET tags == imgs[1].tags
             mine == IF Len(tags) < 2 THEN {tags}
                     ELSE ShuffleOrders(tags, do_not_reorder_first_tag)
         IN  {<<t>> \o rest :
                 t \in mine,
                 rest \in ShuffleChoices(Tail(imgs), do_not_reorder_first_tag)}

\* shuffle_tags, lines 180-190, for the shuffle outcomes `shuffled`
shuffle_plan(imgs, shuffled) ==
    [i \in 1..Len(imgs) |->
        LET tags == imgs[i].tags
        IN  IF Len(tags) < 2 THEN Untouched(tags)
            ELSE [tags |-> shuffled[i], changed |-> TRUE, removed |-> 0]]

\* rename_tag, lines 198-203
rename_plan(imgs, old_tag, new_tag) ==
    [i \in 1..Len(imgs) |->
        LET tags == imgs[i].tags
        IN  IF Contains(tags, old_tag)
            THEN [tags |-> RenameIn(tags, old_tag, new_tag), changed |-> TRUE,
                  removed |-> 0]
            ELSE Untouched(tags)]

\* delete_tag, lines 211-216
delete_plan(imgs, tag) ==
    [i \in 1..Len(imgs) |->
        LET tags == imgs[i].tags
        IN  IF Contains(tags, tag)
            THEN [tags |-> DeleteIn(tags, tag), changed |-> TRUE, removed |-> 0]
            ELSE Untouched(tags)]

----------------------------------------------------------------------------
(* Running an operation.                                                   *)

\* dataChanged.emit(self.index(first), self.index(last))
DataChanged(first, last) == <<"dataChanged", first, last>>

\* modelReset.emit()
ModelReset == <<"modelReset", 0, 0>>

\* One pass of `for image_index, image in enumerate(self.images)` from image
\* i on: the image takes its new tag list and, when changed, its index is
\* recorded and its sidecar written.  A failed write is reported inside
\* write_image_tags_to_disk and the pass goes on.
RECURSIVE Loop(_, _, _, _, _)
Loop(i, plan, acc, unw, sep) ==
    IF i > Len(plan) THEN acc
    ELSE LET image == [path |-> acc.images[i].path, tags |-> plan[i].tags]
             w == write_image_tags_to_disk(image, acc.disk, unw, sep)
             kept == [acc EXCEPT !.images[i] = image]
         IN  IF ~plan[i].changed THEN Loop(i + 1, plan, kept, unw, sep)
             ELSE Loop(i + 1, plan,
                       [images |-> kept.images,
                        disk |-> w.disk,
                        writes |-> Append(acc.writes, w.write),
                        errors |-> acc.errors \o w.errors,
                        changed |-> Append(acc.changed, i),
                        removed |-> acc.removed + plan[i].removed],
                       unw, sep)

\* Mutant of Loop: the OSError of a failed write is not caught and ends the
\* pass; the images after the failing one are never reached.
RECURSIVE LoopStopOnError(_, _, _, _, _)
LoopStopOnError(i, plan, acc, unw, sep) ==
    IF i > Len(plan) THEN acc
    ELSE LET image == [path |-> acc.images[i].path, tags |-> plan[i].tags]
             w == write_image_tags_to_disk(image, acc.disk, unw, sep)
             kept == [acc EXCEPT !.images[i] = image]
             next == [images |-> kept.images,
                      disk |-> w.disk,
                      writes |-> Append(acc.writes, w.write),
                      errors |-> acc.errors \o w.errors,
                      changed |-> Append(acc.changed, i),
                      removed |-> acc.removed + plan[i].removed]
         IN  IF ~plan[i].changed THEN LoopStopOnError(i + 1, plan, kept, unw, sep)
             ELSE IF ~w.write.ok THEN next
             ELSE LoopStopOnError(i + 1, plan, next, unw, sep)

ForEachImageStopOnError(plan, imgs, d, unw, sep) ==
    LoopStopOnError(1, plan,
                    [images |-> imgs, disk |-> d, writes |-> <<>>, errors |-> <<>>,
                     changed |-> <<>>, removed |-> 0],
                    unw, sep)

\* The whole for loop of a mutation operation over self.images.
ForEachImage(plan, imgs, d, unw, sep) ==
    Loop(1, plan,
         [images |-> imgs, disk |-> d, writes |-> <<>>, errors |-> <<>>,
          changed |-> <<>>, removed |-> 0],
         unw, sep)

\* The end of a mutation operation: dataChanged from the first to the last
\* changed index.  changed_image_indices[0] raises IndexError on an empty
\* list; only remove_duplicate_tags guards it (line 128).
EmitChanged(changed, guarded) ==
    IF changed = <<>>
    THEN [raised |-> ~guarded, signals |-> <<>>]
    ELSE [raised |-> FALSE,
          signals |-> <<DataChanged(changed[1], changed[Len(changed)])>>]

\* A mutation operation over the whole collection, given its plan.
BulkOutcome(plan, imgs, d, unw, sep, guarded) ==
    LET acc == ForEachImage(plan, imgs, d, unw, sep)
        end == EmitChanged(acc.changed, guarded)
    IN  [images |-> acc.images, disk |-> acc.disk, writes |-> acc.writes,
         errors |-> acc.errors, signals |-> end.signals, raised |-> end.raised,
         returned |-> IF guarded THEN acc.removed ELSE -1]

\* update_image_tags
UpdateOutcome(imgs, image_index, tags, d, unw, sep) ==
    IF imgs[image_index].tags = tags
    THEN [images |-> imgs, disk |-> d, writes |-> <<>>, errors |-> <<>>,
          signals |-> <<>>, raised |-> FALSE, returned |-> -1]
    ELSE LET image == [path |-> imgs[image_index].path, tags |-> tags]
             w == write_image_tags_to_disk(image, d, unw, sep)
         IN  [images |-> [imgs EXCEPT ![image_index] = image],
              disk |-> w.disk, writes |-> <<w.write>>, errors |-> w.errors,
              signals |-> <<DataChanged(image_index, image_index)>>,
              raised |-> FALSE, returned |-> -1]

\* A call of an operation with its arguments (unused arguments are empty).
Call(op, image_index, tags, old_tag, new_tag, pin, tag_counter, shuffled) ==
    <<op, image_index, tags, old_tag, new_tag, pin, tag_counter, shuffled>>

\* The operation and the arguments of a call.
OpOf(c) == c[1]
ImageIndexOf(c) == c[2]
TagsOf(c) == c[3]
OldTagOf(c) == c[4]
NewTagOf(c) == c[5]
PinOf(c) == c[6]
TagCounterOf(c) == c[7]
ShuffledOf(c) == c[8]

\* The plan of the bulk operation called by c.
PlanFor(c, imgs, sep) ==
    CASE OpOf(c) = "remove_duplicate_tags" -> remove_duplicate_plan(imgs)
      [] OpOf(c) = "sort_tags_alphabetically" ->
            sort_alphabetically_plan(imgs, PinOf(c), sep)
      [] OpOf(c) = "sort_tags_by_frequency" ->
            sort_by_frequency_plan(imgs, TagCounterOf(c), PinOf(c), sep)
      [] OpOf(c) = "shuffle_tags" -> shuffle_plan(imgs, ShuffledOf(c))
      [] OpOf(c) = "rename_tag" -> rename_plan(imgs, OldTagOf(c), NewTagOf(c))
      [] OpOf(c) = "delete_tag" -> delete_plan(imgs, OldTagOf(c))

\* What the mutation operation called by c does.
Run(c, imgs, d, unw, sep) ==
    IF OpOf(c) = "update_image_tags"
    THEN UpdateOutcome(imgs, ImageIndexOf(c), TagsOf(c), d, unw, sep)
    ELSE BulkOutcome(PlanFor(c, imgs, sep), imgs, d, unw, sep,
                     OpOf(c) = "remove_duplicate_tags")

\* TRUE when sep occurs in tag.
ContainsSeparator(tag, sep) ==
    \E k \in 1..Len(tag) : StartsWith(SubSeq(tag, k, Len(tag)), sep)

\* A tag that is not empty, has no surrounding whitespace and no separator.
CleanTag(tag, sep) ==
    /\ tag # <<>>
    /\ ~IsSpace(tag[1]) /\ ~IsSpace(tag[Len(tag)])
    /\ ~ContainsSeparator(tag, sep)

\* TRUE when every tag the caller gives in c is clean.
CleanCall(c, sep) ==
    /\ \A k \in 1..Len(TagsOf(c)) : CleanTag(TagsOf(c)[k], sep)
    /\ OpOf(c) = "rename_tag" => CleanTag(NewTagOf(c), sep)

\* The step of the model for the mutation operation called by c (the
\* callers bound the number of such steps).
Mutate(c) ==
    /\ LET out == Run(c, images, disk, unwritable, separator)
       IN  /\ images' = out.images
           /\ disk' = out.disk
           /\ writes' = out.writes
           /\ errors' = out.errors
           /\ signals' = out.signals
           /\ raised' = out.raised
           /\ returned' = out.returned
           /\ clean' = (clean /\ CleanCall(c, separator) /\ out.errors = <<>>)
    /\ call' = c
    /\ before' = images
    /\ edits' = edits + 1
    /\ UNCHANGED <<separator, unwritable>>

----------------------------------------------------------------------------
(* The inputs explored.                                                    *)

\* Tag separators given to __init__.
Separators == {<<",">>, <<",", " ">>}

aJpg == <<"a", ".", "j", "p", "g">>
aPng == <<"a", ".", "p", "n", "g">>
bJpg == <<"b", ".", "j", "p", "g">>
bPng == <<"b", ".", "p", "n", "g">>
aTxt == <<"a", ".", "t", "x", "t">>
bTxt == <<"b", ".", "t", "x", "t">>

\* Content of an image file (never read by the model).
Pixels == <<>>

\* Directories opened: the empty one; an image with a sidecar and one
\* without; two images sharing a sidecar beside one with an empty sidecar;
\* sidecars with blank pieces and repeated tags; one image whose tags are
\* already in order, beside a sidecar that belongs to no image.  Each caption
\* is built for the separator in use.
Directories(sep) ==
    { <<>>,
      (aJpg :> Pixels) @@ (bPng :> Pixels)
          @@ (aTxt :> Join(<<<<"c">>, <<" ", "a">>, <<>>, <<"b">>, <<"c">>>>, sep)),
      (aJpg :> Pixels) @@ (aPng :> Pixels) @@ (bJpg :> Pixels)
          @@ (aTxt :> Join(<<<<"b">>, <<"a">>, <<"b">>>>, sep))
          @@ (bTxt :> <<>>),
      (aJpg :> Pixels) @@ (bJpg :> Pixels)
          @@ (aTxt :> Join(<<<<"b">>, <<>>, <<" ">>, <<"a", " ">>, <<"b">>, <<"a">>>>, sep))
          @@ (bTxt :> <<"a">>),
      (bJpg :> Pixels) @@ (bTxt :> Join(<<<<"a">>, <<"b">>>>, sep))
          @@ (aTxt :> <<"c">>) }

\* Sets of sidecar files that cannot be written.
UnwritableChoices == {{}, {aTxt}, {aTxt, bTxt}}

\* Tags given to rename_tag and delete_tag.
TagNames == {<<"a">>, <<"b">>, <<"c">>}

\* Tag lists given to update_image_tags: clean ones, one with blank and
\* untrimmed tags, one with a tag that contains both separators.
UpdateTagLists ==
    { <<>>,
      <<<<"b">>, <<"a">>>>,
      <<<<"a">>, <<"b">>, <<"c">>>>,
      <<<<" ", "a">>, <<" ">>>>,
      <<<<"a", ",", " ", "b">>, <<"c">>>> }

\* Global tag counts given to sort_tags_by_frequency.
Counters ==
    { (<<"a">> :> 3) @@ (<<"b">> :> 1) @@ (<<"c">> :> 2),
      (<<"a">> :> 1) @@ (<<"b">> :> 1),
      (<<"b">> :> 2) @@ (<<"c">> :> 2) }

NoCounter == <<>>

----------------------------------------------------------------------------
(* The state machine.                                                      *)

\* __init__: no image is loaded yet.
Init ==
    /\ separator \in Separators
    /\ disk \in Directories(separator)
    /\ unwritable \in UnwritableChoices
    /\ images = <<>>
    /\ call = Call("__init__", 0, <<>>, <<>>, <<>>, FALSE, NoCounter, <<>>)
    /\ before = <<>>
    /\ writes = <<>>
    /\ errors = <<>>
    /\ signals = <<>>
    /\ raised = FALSE
    /\ returned = -1
    /\ edits = 0
    /\ clean = FALSE

load_directory ==
    /\ images' = LoadImages(disk, separator)
    /\ signals' = <<ModelReset>>
    /\ call' = Call("load_directory", 0, <<>>, <<>>, <<>>, FALSE, NoCounter, <<>>)
    /\ before' = images
    /\ writes' = <<>>
    /\ errors' = <<>>
    /\ raised' = FALSE
    /\ returned' = -1
    /\ clean' = TRUE
    /\ UNCHANGED <<separator, disk, unwritable, edits>>

update_image_tags ==
    /\ edits < MaxEdits
    /\ \E image_index \in 1..Len(images), tags \in UpdateTagLists :
          Mutate(Call("update_image_tags", image_index, tags, <<>>, <<>>, FALSE,
                      NoCounter, <<>>))

remove_duplicate_tags ==
    /\ edits < MaxEdits
    /\ Mutate(Call("remove_duplicate_tags", 0, <<>>, <<>>, <<>>, FALSE, NoCounter, <<>>))

sort_tags_alphabetically ==
    /\ edits < MaxEdits
    /\ \E do_not_reorder_first_tag \in BOOLEAN :
          Mutate(Call("sort_tags_alphabetically", 0, <<>>, <<>>, <<>>,
                      do_not_reorder_first_tag, NoCounter, <<>>))

sort_tags_by_frequency ==
    /\ edits < MaxEdits
    /\ \E tag_counter \in Counters, do_not_reorder_first_tag \in BOOLEAN :
          Mutate(Call("sort_tags_by_frequency", 0, <<>>, <<>>, <<>>,
                      do_not_reorder_first_tag, tag_counter, <<>>))

shuffle_tags ==
    /\ edits < MaxEdits
    /\ \E do_not_reorder_first_tag \in BOOLEAN :
          \E shuffled \in ShuffleChoices(images, do_not_reorder_first_tag) :
              Mutate(Call("shuffle_tags", 0, <<>>, <<>>, <<>>,
                          do_not_reorder_first_tag, NoCounter, shuffled))

rename_tag ==
    /\ edits < MaxEdits
    /\ \E old_tag \in TagNames, new_tag \in TagNames :
          Mutate(Call("rename_tag", 0, <<>>, old_tag, new_tag, FALSE, NoCounter, <<>>))

delete_tag ==
    /\ edits < MaxEdits
    /\ \E tag \in TagNames :
          Mutate(Call("delete_tag", 0, <<>>, tag, <<>>, FALSE, NoCounter, <<>>))

Next ==
    \/ load_directory
    \/ update_image_tags
    \/ remove_duplicate_tags
    \/ sort_tags_alphabetically
    \/ sort_tags_by_frequency
    \/ shuffle_tags
    \/ rename_tag
    \/ delete_tag

Spec == Init /\ [][Next]_vars

----------------------------------------------------------------------------
(* Vocabulary of the properties.                                           *)

\* The last operation called was a tag mutation operation.
IsMutation == OpOf(call) \notin {"__init__", "load_directory"}

\* The caption of a tag list.
Caption(tags) == Join(tags, separator)

\* Number of write_text calls the last operation made for the image at path.
WriteCount(path) == Cardinality({k \in 1..Len(writes) : writes[k].path = path})

\* Write k of the last operation succeeded and no later write of the
\* operation went to the same file.
LastingWrite(k) ==
    /\ writes[k].ok
    /\ \A m \in (k + 1)..Len(writes) : writes[m].file # writes[k].file

\* s without its surrounding whitespace: from its first to its last
\* character that is not whitespace.
Trimmed(s) ==
    LET solid == {k \in 1..Len(s) : ~IsSpace(s[k])}
    IN  IF solid = {} THEN <<>>
        ELSE SubSeq(s, CHOOSE k \in solid : \A j \in solid : k <= j,
                       CHOOSE k \in solid : \A j \in solid : j <= k)

\* The tags trimmed, without those that are empty after trimming.
TrimDrop(tags) ==
    SelectSeq([k \in 1..Len(tags) |-> Trimmed(tags[k])], LAMBDA t : t # <<>>)

\* The pieces of a caption between the occurrences of the separator (the
\* occurrences of "," and of ", " cannot overlap).
PiecesOf(caption, sep) ==
    LET at == {k \in 1..(Len(caption) - Len(sep) + 1) :
                  SubSeq(caption, k, k + Len(sep) - 1) = sep}
        n == Cardinality(at)
        pos(m) == CHOOSE k \in at : Cardinality({j \in at : j < k}) = m - 1
        from(m) == IF m = 1 THEN 1 ELSE pos(m - 1) + Len(sep)
        to(m) == IF m = n + 1 THEN Len(caption) ELSE pos(m) - 1
    IN  [m \in 1..(n + 1) |-> SubSeq(caption, from(m), to(m))]

\* The name of a file ends in ".txt" after a non-empty stem.
EndsInTxt(name) ==
    /\ Len(name) > 4
    /\ SubSeq(name, Len(name) - 3, Len(name)) = <<".", "t", "x", "t">>

\* The name of a file up to its extension.
StemOf(name) ==
    LET dots == {k \in 2..Len(name) : name[k] = "."}
    IN  IF dots = {} THEN name
        ELSE SubSeq(name, 1, (CHOOSE k \in dots : \A j \in dots : j <= k) - 1)

\* The tags the image at path has when the directory is loaded now.
ReloadedTags(path) ==
    LET loaded == LoadImages(disk, separator)
    IN  loaded[CHOOSE j \in 1..Len(loaded) : loaded[j].path = path].tags

\* Position of the first occurrence of tag t in tags.
FirstIndex(tags, t) ==
    CHOOSE k \in 1..Len(tags) : tags[k] = t /\ \A j \in 1..(k - 1) : tags[j] # t

\* Tags that remove_duplicate_tags has to remove from imgs.
RECURSIVE Surplus(_)
Surplus(imgs) ==
    IF imgs = <<>> THEN 0
    ELSE Len(imgs[1].tags)
         - Cardinality({imgs[1].tags[k] : k \in 1..Len(imgs[1].tags)})
         + Surplus(Tail(imgs))

----------------------------------------------------------------------------
(* Properties.                                                             *)

(* C1: a tag mutation operation that changes no record completes          *)
(* normally, writes no sidecar file and emits no change notification.     *)
C1_NoChangeIsSilent ==
    (IsMutation /\ images = before) =>
        (~raised /\ writes = <<>> /\ signals = <<>>)

C4_RoundTrip ==
    IsMutation =>
        \A k \in 1..Len(writes) : \A i \in 1..Len(images) :
            (LastingWrite(k) /\ images[i].path = writes[k].path) =>
                ReloadedTags(images[i].path) = TrimDrop(images[i].tags)

(* C4, amended: the same, for a tag list none of whose tags contains the  *)
(* separator.                                                             *)
C4_RoundTripWithoutSeparator ==
    IsMutation =>
        \A k \in 1..Len(writes) : \A i \in 1..Len(images) :
            ( /\ LastingWrite(k)
              /\ images[i].path = writes[k].path
              /\ \A t \in 1..Len(images[i].tags) :
                    ~ContainsSeparator(images[i].tags[t], separator) ) =>
                ReloadedTags(images[i].path) = TrimDrop(images[i].tags)

\* A tag list with an untrimmed and a blank tag, none with the separator,
\* was written to its sidecar.
C4_Witness ==
    /\ IsMutation
    /\ \E k \in 1..Len(writes) : \E i \in 1..Len(images) :
         /\ LastingWrite(k)
         /\ images[i].path = writes[k].path
         /\ \A t \in 1..Len(images[i].tags) :
               ~ContainsSeparator(images[i].tags[t], separator)
         /\ TrimDrop(images[i].tags) # images[i].tags
         /\ TrimDrop(images[i].tags) # <<>>

(* C5: after load_directory the collection holds one record for each file *)
(* that is not a .txt file and none for a .txt file, in ascending order   *)
(* of path; the tags of a record are the pieces of the content of its     *)
(* same-named .txt file between the separators, trimmed, without the      *)
(* empty ones, and are empty when that file is absent or empty.           *)
C5_LoadedCollection ==
    OpOf(call) = "load_directory" =>
        /\ {images[i].path : i \in 1..Len(images)}
              = {f \in DOMAIN disk : ~EndsInTxt(f)}
        /\ \A i, j \in 1..Len(images) :
              i < j => StrLess(images[i].path, images[j].path)
        /\ \A i \in 1..Len(images) :
              LET sidecars == {f \in DOMAIN disk :
                                  EndsInTxt(f) /\ StemOf(f) = StemOf(images[i].path)}
              IN  /\ Cardinality(sidecars) <= 1
                  /\ sidecars = {} => images[i].tags = <<>>
                  /\ \A f \in sidecars :
                        images[i].tags =
                            IF disk[f] = <<>> THEN <<>>
                            ELSE TrimDrop(PiecesOf(disk[f], separator))

\* A directory was loaded where one image has tags from a sidecar with
\* blank pieces, and another has no sidecar or an empty one.
C5_Witness ==
    /\ OpOf(call) = "load_directory"
    /\ before # <<>>
    /\ \E i, j \in 1..Len(images) :
          /\ images[i].tags # <<>>
          /\ \E f \in DOMAIN disk :
                /\ EndsInTxt(f) /\ StemOf(f) = StemOf(images[i].path)
                /\ Len(PiecesOf(disk[f], separator)) > Len(images[i].tags)
          /\ images[j].tags = <<>>

(* C6: remove_duplicate_tags leaves every record with each distinct tag of *)
(* its original list exactly once, in order of first occurrence; it       *)
(* returns the number of tags removed over all records; a record whose    *)
(* tags are all distinct keeps its list and is not written.               *)
C6_DuplicatesRemoved ==
    OpOf(call) = "remove_duplicate_tags" =>
        /\ \A i \in 1..Len(images) :
              LET old == before[i].tags
                  new == images[i].tags
              IN  /\ {new[k] : k \in 1..Len(new)} = {old[k] : k \in 1..Len(old)}
                  /\ \A a, b \in 1..Len(new) :
                        a < b => /\ new[a] # new[b]
                                 /\ FirstIndex(old, new[a]) < FirstIndex(old, new[b])
                  /\ (\A a, b \in 1..Len(old) : a # b => old[a] # old[b]) =>
                        /\ new = old
                        /\ WriteCount(images[i].path) = 0
        /\ returned = Surplus(before)
        /\ ~raised

\* Duplicates were removed from one record, two tags or more in all, and
\* another record was left alone.
C6_Witness ==
    /\ OpOf(call) = "remove_duplicate_tags"
    /\ returned >= 2
    /\ \E i, j \in 1..Len(images) :
          /\ Len(images[i].tags) < Len(before[i].tags)
          /\ Len(images[i].tags) >= 2
          /\ WriteCount(images[j].path) = 0

(* C7: rename_tag(old, new) puts new at every position of every record    *)
(* that holds old and leaves the length and every other tag as they were; *)
(* a record without old keeps its list and is not written.                *)
C7_TagRenamedInPlace ==
    OpOf(call) = "rename_tag" =>
        \A i \in 1..Len(images) :
            LET old == before[i].tags
                new == images[i].tags
            IN  /\ Len(new) = Len(old)
                /\ \A k \in 1..Len(old) :
                      /\ old[k] = OldTagOf(call) => new[k] = NewTagOf(call)
                      /\ old[k] # OldTagOf(call) => new[k] = old[k]
                /\ (\A k \in 1..Len(old) : old[k] # OldTagOf(call)) =>
                      /\ new = old
                      /\ WriteCount(images[i].path) = 0

\* A tag held twice by one record, beside another tag, was given a new
\* name, and another record does not hold it.
C7_Witness ==
    /\ OpOf(call) = "rename_tag"
    /\ OldTagOf(call) # NewTagOf(call)
    /\ \E i, j \in 1..Len(images) :
          /\ Cardinality({k \in 1..Len(before[i].tags) :
                             before[i].tags[k] = OldTagOf(call)}) >= 2
          /\ \E k \in 1..Len(before[i].tags) : before[i].tags[k] # OldTagOf(call)
          /\ images[i].tags # before[i].tags
          /\ WriteCount(images[j].path) = 0

(* C8: sort_tags_by_frequency leaves each record of 2 or more tags with a *)
(* permutation of its tags in non-increasing order of the given count,    *)
(* tags of equal count in their original relative order; with pinning the *)
(* first tag stays first and only the others are ordered so; a record of  *)
(* fewer than 2 tags is unchanged.                                        *)
C8_SortedByFrequency ==
    OpOf(call) = "sort_tags_by_frequency" =>
        \A i \in 1..Len(images) :
            LET old == before[i].tags
                new == images[i].tags
                n == Len(old)
                lo == IF PinOf(call) THEN 2 ELSE 1
                cnt(t) == Count(TagCounterOf(call), t)
            IN  IF n < 2 THEN new = old
                ELSE /\ Len(new) = n
                     /\ \E p \in Permutations(1..n) :
                           /\ \A k \in 1..n : new[k] = old[p[k]]
                           /\ PinOf(call) => p[1] = 1
                           /\ \A a, b \in lo..n :
                                 a < b => /\ cnt(new[a]) >= cnt(new[b])
                                          /\ cnt(new[a]) = cnt(new[b]) => p[a] < p[b]

\* A record of 3 tags or more was reordered with the first tag pinned, two
\* different tags of equal count among the others.
C8_Witness ==
    /\ OpOf(call) = "sort_tags_by_frequency"
    /\ PinOf(call)
    /\ \E i \in 1..Len(images) :
          /\ images[i].tags # before[i].tags
          /\ \E a, b \in 2..Len(images[i].tags) :
                /\ images[i].tags[a] # images[i].tags[b]
                /\ Count(TagCounterOf(call), images[i].tags[a])
                      = Count(TagCounterOf(call), images[i].tags[b])

(* C9: sort_tags_alphabetically leaves each record of 2 or more tags with *)
(* a permutation of its tags, in ascending order without pinning, and     *)
(* with pinning the original first tag first and the others in ascending  *)
(* order; a record of fewer than 2 tags is unchanged.                     *)
C9_SortedAlphabetically ==
    OpOf(call) = "sort_tags_alphabetically" =>
        \A i \in 1..Len(images) :
            LET old == before[i].tags
                new == images[i].tags
                n == Len(old)
                lo == IF PinOf(call) THEN 2 ELSE 1
            IN  IF n < 2 THEN new = old
                ELSE /\ Len(new) = n
                     /\ \E p \in Permutations(1..n) :
                           /\ \A k \in 1..n : new[k] = old[p[k]]
                           /\ PinOf(call) => p[1] = 1
                     /\ \A a, b \in lo..n : a < b => ~StrLess(new[b], new[a])

\* A record of 3 tags or more was reordered with the first tag pinned, and
\* the first tag is not the least.
C9_Witness ==
    /\ OpOf(call) = "sort_tags_alphabetically"
    /\ PinOf(call)
    /\ \E i \in 1..Len(images) :
          /\ Len(images[i].tags) >= 3
          /\ images[i].tags # before[i].tags
          /\ StrLess(images[i].tags[2], images[i].tags[1])

(* C10: after load_directory and any mutation operations in which no      *)
(* write failed and every tag given by a caller was clean, loading the    *)
(* directory again gives every record the tag list it holds in memory.    *)
C10_DiskMatchesMemory ==
    clean => LoadImages(disk, separator) = images

====
